---- MODULE Spec2Model ----
(***************************************************************************)
(* Model of pkg/admission/admit/admit.go: the admission webhook request    *)
(* pipeline.  Two variants live in the source: the AdmissionController     *)
(* (a list of registered AdmitFuncs, lines 56-177) and the single-function *)
(* handler AdmitFuncHandler(adm) (lines 237-335).                          *)
(*                                                                         *)
(* Texts built with fmt.Errorf are sequences of their pieces; NoErr (the   *)
(* empty sequence) stands for a nil error.  A Go slice is a record         *)
(* [isNil, elems] because json.Marshal tells a nil slice ("null") from an  *)
(* empty one ("[]").                                                       *)
(***************************************************************************)
EXTENDS Integers, Sequences, FiniteSets, TLC

VARIABLES admitFuncs, h

vars == <<admitFuncs, h>>

\* ------------------------------------------------------------------ bounds
\* Largest number of Register calls explored.
MaxFuncs == 2

\* Concurrent handler invocations (goroutines of the hosting HTTP server).
Procs == {"g1", "g2"}

\* ------------------------------------------------------------- constants
jsonContentType == "application/json"

MethodPost == "POST"

NamespacePublic == "kube-public"

NamespaceSystem == "kube-system"

StatusMethodNotAllowed == 405

StatusBadRequest == 400

StatusInternalServerError == 500

StatusOK == 200

PatchTypeJSONPatch == "JSONPatch"

\* ------------------------------------------------------------ input sets
Methods == {"POST", "GET"}

ContentTypes == {"application/json", "application/json; charset=utf-8", ""}

UIDs == {"uid-1", "uid-2"}

Namespaces == {"default", "team-a", "kube-public", "kube-system"}

ReviewTypeMeta == "admission.k8s.io/v1 AdmissionReview"

\* The review requests the API server sends: two to ordinary namespaces (with
\* different UIDs) and one to each Kubernetes-owned namespace.
Reviews ==
    {[kind |-> "review", uid |-> "uid-1", namespace |-> "default"],
     [kind |-> "review", uid |-> "uid-2", namespace |-> "team-a"],
     [kind |-> "review", uid |-> "uid-1", namespace |-> "kube-system"],
     [kind |-> "review", uid |-> "uid-2", namespace |-> "kube-public"]}

\* What io.ReadAll(r.Body) can deliver: a read failure, bytes that are not a
\* review, a review whose request field is null, or a review with a request.
Bodies ==
    {[kind |-> "readError", uid |-> "", namespace |-> ""],
     [kind |-> "garbage", uid |-> "", namespace |-> ""],
     [kind |-> "nilRequest", uid |-> "", namespace |-> ""]}
    \cup Reviews

NoBody == [kind |-> "unread", uid |-> "", namespace |-> ""]

\* ----------------------------------------------------------------- errors
NoErr == <<>>

\* ------------------------------------------------------------ patch model
OpA == [op |-> "add", path |-> "/metadata/labels/a", value |-> "true"]

OpB == [op |-> "replace", path |-> "/metadata/labels/a", value |-> "false"]

OpC == [op |-> "remove", path |-> "/spec/nodeName", value |-> ""]

\* A value encoding/json cannot serialize (a channel or func in interface{}).
OpBad == [op |-> "add", path |-> "/metadata/labels/b", value |-> "<chan>"]

NilSlice == [isNil |-> TRUE, elems |-> <<>>]

Slice(s) == [isNil |-> FALSE, elems |-> s]

\* --------------------------------------------------- decision functions
\* The AdmitFuncs the model registers; each is a function of the request:
\*   patchA   always adds a label;
\*   patchB   replaces the label, with nothing to patch in team-a;
\*   quota    admits unchanged, but refuses requests to team-a;
\*   denyOps  returns operations together with an error;
\*   badValue returns an operation whose value cannot be serialized.
FuncKinds == {"patchA", "patchB", "quota", "denyOps", "badValue"}

\* adm(request): the pair (patches, err) the AdmitFunc returns.
AdmitFunc(f, req) ==
    CASE f = "patchA"   -> [patches |-> Slice(<<OpA>>), err |-> NoErr]
      [] f = "patchB"   -> IF req.namespace = "team-a"
                           THEN [patches |-> Slice(<<>>), err |-> NoErr]
                           ELSE [patches |-> Slice(<<OpB>>), err |-> NoErr]
      [] f = "quota"    -> IF req.namespace = "team-a"
                           THEN [patches |-> NilSlice, err |-> <<"quota exceeded">>]
                           ELSE [patches |-> NilSlice, err |-> NoErr]
      [] f = "denyOps"  -> [patches |-> Slice(<<OpC>>), err |-> <<"denied">>]
      [] f = "badValue" -> [patches |-> Slice(<<OpBad>>), err |-> NoErr]

\* Variant of isKubeNamespace that forgets kube-public.
isKubeNamespace_SystemOnly(ns) == ns = NamespaceSystem

\* isKubeNamespace checks if the namespace is a Kubernetes-owned namespace.
isKubeNamespace(ns) == ns = NamespacePublic \/ ns = NamespaceSystem

\* Variant of AppendPatches that puts the new operations in front.
AppendPatches_Prepend(patchOps, patches) ==
    IF Len(patches.elems) = 0
    THEN patchOps
    ELSE Slice(patches.elems \o patchOps.elems)

\* append(patchOps, patches...): appending nothing to a nil slice leaves nil.
AppendPatches(patchOps, patches) ==
    IF Len(patches.elems) = 0
    THEN patchOps
    ELSE Slice(patchOps.elems \o patches.elems)

\* json.Marshal(patchOps): fails on an unsupported value; nil encodes as null.
Marshalable(ops) == \A i \in 1..Len(ops.elems) : ops.elems[i].value # "<chan>"

NoPatch == [present |-> FALSE, null |-> FALSE, items |-> <<>>]

MarshalPatch(ops) ==
    IF ops.isNil
    THEN [present |-> TRUE, null |-> TRUE, items |-> <<>>]
    ELSE [present |-> TRUE, null |-> FALSE, items |-> ops.elems]

\* http.ResponseWriter: the first WriteHeader wins, later calls are ignored;
\* Write sends an implicit 200 when no header was written.
WriteHeader(w, code) == IF w.status = 0 THEN [w EXCEPT !.status = code] ELSE w


\* Write(bytes) of the encoded review, or of the plain error text.
WriteBytes(w, kind, text, review) ==
    [status |-> IF w.status = 0 THEN StatusOK ELSE w.status,
     kind |-> kind, text |-> text, review |-> review]

\* ------------------------------------------------------ review envelopes
NoRequest == [present |-> FALSE, uid |-> "", namespace |-> ""]

\* The zero AdmissionReview / AdmissionResponse (no response built yet).
NoReview ==
    [built |-> FALSE, typeMeta |-> "", echoRequest |-> NoRequest, uid |-> "",
     allowed |-> FALSE, hasResult |-> FALSE, message |-> NoErr,
     patch |-> NoPatch, patchType |-> ""]

NewWriter == [status |-> 0, kind |-> "none", text |-> <<>>, review |-> NoReview]

\* UniversalDeserializer.Decode(body, nil, &admissionReviewReq)
Decode(body) ==
    CASE body.kind = "review" ->
            [err |-> NoErr, typeMeta |-> ReviewTypeMeta,
             request |-> [present |-> TRUE, uid |-> body.uid, namespace |-> body.namespace]]
      [] body.kind = "nilRequest" ->
            [err |-> NoErr, typeMeta |-> ReviewTypeMeta, request |-> NoRequest]
      [] OTHER ->
            [err |-> <<"couldn't get version/kind; json parse error">>,
             typeMeta |-> "", request |-> NoRequest]

\* ------------------------------------------------------- handler state
\* One handler invocation: the locals of ServeHTTP/doServeAdmitFunc, the
\* ResponseWriter, and the history of what the invocation has done.
IdleHandler ==
    [pc |-> "idle", variant |-> "none", adm |-> "none",
     method |-> "", contentType |-> "", body |-> NoBody,
     w |-> NewWriter, err |-> NoErr, retErr |-> NoErr,
     typeMeta |-> "", req |-> NoRequest,
     decoded |-> FALSE, nsChecked |-> FALSE,
     funcs |-> <<>>, idx |-> 0, patchOps |-> NilSlice, calls |-> <<>>,
     review |-> NoReview, bytes |-> NoReview]

\* Variant of WriteResponse that writes the returned bytes in both branches.
WriteResponse_AlwaysBytes(st) ==
    IF st.retErr # NoErr
    THEN [st EXCEPT !.pc = "done",
                    !.w = WriteBytes(WriteHeader(st.w, StatusInternalServerError),
                                     "review", <<>>, st.bytes)]
    ELSE [st EXCEPT !.pc = "done",
                    !.w = WriteBytes(st.w, "review", <<>>, st.bytes)]

\* ServeHTTP / serveAdmitFunc once doServeAdmitFunc has returned (bytes, err):
\* on an error WriteHeader(500) and the error text, else the bytes.
WriteResponse(st) ==
    IF st.retErr # NoErr
    THEN [st EXCEPT !.pc = "done",
                    !.w = WriteBytes(WriteHeader(st.w, StatusInternalServerError),
                                     "text", st.retErr, NoReview)]
    ELSE [st EXCEPT !.pc = "done",
                    !.w = WriteBytes(st.w, "review", <<>>, st.bytes)]

\* w.WriteHeader(code); return nil, err -- and the caller's handling of it.
Reject(st, code, err) ==
    WriteResponse([st EXCEPT !.w = WriteHeader(st.w, code), !.retErr = err])

\* ---------------------------------------- Step 1: request validation
\* if r.Method != http.MethodPost { 405; return nil, err }
CheckMethod(st) ==
    IF st.method # MethodPost
    THEN Reject(st, StatusMethodNotAllowed,
                <<"invalid method ", st.method, ", only POST requests are allowed">>)
    ELSE [st EXCEPT !.pc = "read"]

\* body, err := io.ReadAll(r.Body); a failure is a 400.
ReadBody(st, b) ==
    IF b.kind = "readError"
    THEN Reject([st EXCEPT !.body = b, !.err = <<"unexpected EOF">>], StatusBadRequest,
                <<"could not read request body: ", "unexpected EOF">>)
    ELSE [st EXCEPT !.pc = "ctype", !.body = b, !.err = NoErr]

\* Variant of CheckContentType that compares the media type only, so that a
\* parameterized application/json passes.
CheckContentType_MediaTypeOnly(st) ==
    IF st.contentType \notin {jsonContentType, "application/json; charset=utf-8"}
    THEN Reject(st, StatusBadRequest,
                <<"unsupported content type ", st.contentType, ", only ",
                  jsonContentType, " is supported">>)
    ELSE [st EXCEPT !.pc = "decode"]

\* r.Header.Get("Content-Type") must equal jsonContentType exactly.
CheckContentType(st) ==
    IF st.contentType # jsonContentType
    THEN Reject(st, StatusBadRequest,
                <<"unsupported content type ", st.contentType, ", only ",
                  jsonContentType, " is supported">>)
    ELSE [st EXCEPT !.pc = "decode"]

\* Variant of ValidateRequest that reads the body before it looks at the method.
ValidateRequest_ReadFirst(st, b) ==
    LET s1 == ReadBody(st, b)
        s2 == CheckMethod(s1)
    IN  IF s1.pc = "done" THEN s1
        ELSE IF s2.pc = "done" THEN s2
        ELSE CheckContentType(s2)

\* Step 1 as the code runs it: method, then body, then content type.
ValidateRequest(st, b) ==
    LET s1 == CheckMethod(st)
        s2 == ReadBody(s1, b)
    IN  IF s1.pc = "done" THEN s1
        ELSE IF s2.pc = "done" THEN s2
        ELSE CheckContentType(s2)

\* Variant of DecodeReview without the check for a nil request.
DecodeReview_NoNilCheck(st) ==
    LET d == Decode(st.body)
        st1 == [st EXCEPT !.decoded = TRUE]
    IN  IF d.err # NoErr
        THEN Reject(st1, StatusBadRequest, <<"could not deserialize request: ">> \o d.err)
        ELSE [st1 EXCEPT !.pc = "construct", !.typeMeta = d.typeMeta, !.req = d.request]

\* ---------------------------------- Step 2: parse the AdmissionReview
DecodeReview(st) ==
    LET d == Decode(st.body)
        st1 == [st EXCEPT !.decoded = TRUE]
    IN  IF d.err # NoErr
        THEN Reject(st1, StatusBadRequest, <<"could not deserialize request: ">> \o d.err)
        ELSE IF ~d.request.present
        THEN Reject(st1, StatusBadRequest, <<"malformed admission review: request is nil">>)
        ELSE [st1 EXCEPT !.pc = "construct", !.typeMeta = d.typeMeta, !.req = d.request]

\* Variant of NewReviewResponse that takes the UID from a request variable
\* shared by the goroutines instead of the handler's own.
NewReviewResponse_SharedRequest(st) ==
    LET others == {q \in DOMAIN h : h[q].req.present /\ h[q].pc # "idle"}
        uid == IF others = {} THEN st.req.uid ELSE h[CHOOSE q \in others : TRUE].req.uid
    IN  [st EXCEPT !.pc = "admit",
                   !.review = [NoReview EXCEPT !.built = TRUE,
                                               !.typeMeta = st.typeMeta,
                                               !.echoRequest = st.req,
                                               !.uid = uid]]

\* ------------------------------ Step 3: construct the review response
\* The controller echoes TypeMeta and Request and sets Response.UID.
NewReviewResponse(st) ==
    [st EXCEPT !.pc = "admit",
               !.review = [NoReview EXCEPT !.built = TRUE,
                                           !.typeMeta = st.typeMeta,
                                           !.echoRequest = st.req,
                                           !.uid = st.req.uid]]

\* Steps 2 and 3 of the controller's doServeAdmitFunc.
ParseReview(st) ==
    LET s1 == DecodeReview(st)
    IN  IF s1.pc = "done" THEN s1 ELSE NewReviewResponse(s1)

\* if !isKubeNamespace(ns) { for _, adm := range ac.admitFuncs ... }: the
\* range expression is evaluated once, when the loop is entered.
EnterAdmitLoop(st, registered) ==
    IF ~isKubeNamespace(st.req.namespace)
    THEN [st EXCEPT !.pc = "loop", !.nsChecked = TRUE, !.funcs = registered, !.idx = 1]
    ELSE [st EXCEPT !.pc = "build", !.nsChecked = TRUE]

\* Variant of CallAdmitFunc that skips a failing function instead of leaving
\* the loop.
CallAdmitFunc_NoBreak(st) ==
    IF st.idx > Len(st.funcs)
    THEN [st EXCEPT !.pc = "build"]
    ELSE LET r == AdmitFunc(st.funcs[st.idx], st.req)
             st1 == [st EXCEPT !.calls = Append(st.calls, st.idx)]
         IN  IF r.err # NoErr
             THEN [st1 EXCEPT !.idx = st.idx + 1]
             ELSE [st1 EXCEPT !.patchOps = AppendPatches(st.patchOps, r.patches),
                              !.idx = st.idx + 1]

\* One iteration: if patches, err := adm(request); err != nil { break } else
\* { patchOps = append(patchOps, patches...) }.  The err of the if statement
\* is a new variable of the if's scope: the function's err never reaches
\* st.err, which still holds the nil of io.ReadAll.
CallAdmitFunc(st) ==
    IF st.idx > Len(st.funcs)
    THEN [st EXCEPT !.pc = "build"]
    ELSE LET r == AdmitFunc(st.funcs[st.idx], st.req)
             st1 == [st EXCEPT !.calls = Append(st.calls, st.idx)]
         IN  IF r.err # NoErr
             THEN [st1 EXCEPT !.pc = "build"]
             ELSE [st1 EXCEPT !.patchOps = AppendPatches(st.patchOps, r.patches),
                              !.idx = st.idx + 1]

\* Variant of BuildResponse that reports a patch that cannot be encoded with
\* the status of the request errors above it.
BuildResponse_MarshalErrorAsBadRequest(st) ==
    IF st.err # NoErr
    THEN [st EXCEPT !.pc = "marshal",
                    !.review = [st.review EXCEPT !.allowed = FALSE,
                                                 !.hasResult = TRUE,
                                                 !.message = st.err]]
    ELSE IF ~Marshalable(st.patchOps)
    THEN Reject(st, StatusBadRequest,
                <<"could not marshal JSON patch: ", "json: unsupported type">>)
    ELSE [st EXCEPT !.pc = "marshal",
                    !.review = [st.review EXCEPT !.allowed = TRUE,
                                                 !.patch = MarshalPatch(st.patchOps),
                                                 !.patchType = PatchTypeJSONPatch]]

\* if err != nil { deny with err.Error() } else { marshal patchOps, allow }
BuildResponse(st) ==
    IF st.err # NoErr
    THEN [st EXCEPT !.pc = "marshal",
                    !.review = [st.review EXCEPT !.allowed = FALSE,
                                                 !.hasResult = TRUE,
                                                 !.message = st.err]]
    ELSE IF ~Marshalable(st.patchOps)
    THEN Reject(st, StatusInternalServerError,
                <<"could not marshal JSON patch: ", "json: unsupported type">>)
    ELSE [st EXCEPT !.pc = "marshal",
                    !.review = [st.review EXCEPT !.allowed = TRUE,
                                                 !.patch = MarshalPatch(st.patchOps),
                                                 !.patchType = PatchTypeJSONPatch]]

\* bytes, err := json.Marshal(admissionReviewResponse); return bytes, nil
MarshalReview(st) == WriteResponse([st EXCEPT !.bytes = st.review])

\* json.Marshal(admissionReviewResponse) fails: return nil, err without a
\* WriteHeader of its own (lines 154-156).
MarshalReviewFails(st) ==
    WriteResponse([st EXCEPT !.retErr = <<"marshaling response: ", "json: error">>])

\* The end of doServeAdmitFunc when the envelope cannot be encoded.
FinishReviewEncodeFault(st) ==
    LET s1 == BuildResponse(st)
    IN  IF s1.pc = "done" THEN s1 ELSE MarshalReviewFails(s1)

\* The end of doServeAdmitFunc: build the response, encode it, write it.
FinishReview(st) ==
    LET s1 == BuildResponse(st)
    IN  IF s1.pc = "done" THEN s1 ELSE MarshalReview(s1)

\* ------------------------------- the single-function variant (237-335)
\* Steps 1 and 2 (lines 240-266) and serveAdmitFunc (lines 312-328) are the
\* text of the controller's; Step 3 sets only Response.UID.
HandlerNewReviewResponse(st) ==
    [st EXCEPT !.pc = "admit",
               !.review = [NoReview EXCEPT !.built = TRUE, !.uid = st.req.uid]]

HandlerParseReview(st) ==
    LET s1 == DecodeReview(st)
    IN  IF s1.pc = "done" THEN s1 ELSE HandlerNewReviewResponse(s1)

\* if !isKubeNamespace(ns) { patchOps, err = adm(request) }: here the outer
\* err is assigned.
HandlerAdmit(st) ==
    IF ~isKubeNamespace(st.req.namespace)
    THEN LET r == AdmitFunc(st.adm, st.req)
         IN  [st EXCEPT !.pc = "build", !.nsChecked = TRUE, !.calls = Append(st.calls, 1),
                        !.patchOps = r.patches, !.err = r.err]
    ELSE [st EXCEPT !.pc = "build", !.nsChecked = TRUE]

\* Variant of HandlerBuildResponse that encodes the patch before it looks at
\* err, so that a denial carries the operations too.
HandlerBuildResponse_PatchOnDeny(st) ==
    IF ~Marshalable(st.patchOps)
    THEN Reject(st, StatusInternalServerError,
                <<"could not marshal JSON patch: ", "json: unsupported type">>)
    ELSE IF st.err # NoErr
    THEN [st EXCEPT !.pc = "marshal",
                    !.review = [st.review EXCEPT !.allowed = FALSE,
                                                 !.hasResult = TRUE,
                                                 !.message = st.err,
                                                 !.patch = MarshalPatch(st.patchOps)]]
    ELSE [st EXCEPT !.pc = "marshal",
                    !.review = [st.review EXCEPT !.allowed = TRUE,
                                                 !.patch = MarshalPatch(st.patchOps)]]

\* if err != nil { deny } else { marshal patchOps, allow }; no PatchType.
HandlerBuildResponse(st) ==
    IF st.err # NoErr
    THEN [st EXCEPT !.pc = "marshal",
                    !.review = [st.review EXCEPT !.allowed = FALSE,
                                                 !.hasResult = TRUE,
                                                 !.message = st.err]]
    ELSE IF ~Marshalable(st.patchOps)
    THEN Reject(st, StatusInternalServerError,
                <<"could not marshal JSON patch: ", "json: unsupported type">>)
    ELSE [st EXCEPT !.pc = "marshal",
                    !.review = [st.review EXCEPT !.allowed = TRUE,
                                                 !.patch = MarshalPatch(st.patchOps)]]

HandlerFinishReview(st) ==
    LET s1 == HandlerBuildResponse(st)
    IN  IF s1.pc = "done" THEN s1 ELSE MarshalReview(s1)

\* The same end when the envelope cannot be encoded (lines 304-306).
HandlerFinishReviewEncodeFault(st) ==
    LET s1 == HandlerBuildResponse(st)
    IN  IF s1.pc = "done" THEN s1 ELSE MarshalReviewFails(s1)

\* ------------------------------------------------------------- actions
\* Variant of Register that puts the new function in front of the list.
Register_Prepend(adm) ==
    /\ Len(admitFuncs) < MaxFuncs
    /\ admitFuncs' = <<adm>> \o admitFuncs
    /\ UNCHANGED h

\* Register registers a new AdmitFunc at this controller.
Register(adm) ==
    /\ Len(admitFuncs) < MaxFuncs
    /\ admitFuncs' = Append(admitFuncs, adm)
    /\ UNCHANGED h

\* Variant of ServeHTTP in which patchOps is not a local of the call but a
\* field that outlives it: the call starts from what another call collected.
ServeHTTP_SharedPatchOps(p, m, ct, b) ==
    /\ h[p].pc = "idle"
    /\ LET q == CHOOSE q \in Procs : q # p
       IN  h' = [h EXCEPT ![p] =
                    ValidateRequest([IdleHandler EXCEPT !.variant = "controller",
                                                        !.method = m, !.contentType = ct,
                                                        !.patchOps = h[q].patchOps], b)]
    /\ UNCHANGED admitFuncs

\* The HTTP server calls ac.ServeHTTP(w, r) on a free goroutine; the handler
\* runs Step 1 on the request.
ServeHTTP(p, m, ct, b) ==
    /\ h[p].pc = "idle"
    /\ h' = [h EXCEPT ![p] =
                ValidateRequest([IdleHandler EXCEPT !.variant = "controller",
                                                    !.method = m, !.contentType = ct], b)]
    /\ UNCHANGED admitFuncs

DoParseReview(p) ==
    /\ h[p].pc = "decode"
    /\ h[p].variant = "controller"
    /\ h' = [h EXCEPT ![p] = ParseReview(h[p])]
    /\ UNCHANGED admitFuncs

DoEnterAdmitLoop(p) ==
    /\ h[p].pc = "admit"
    /\ h[p].variant = "controller"
    /\ h' = [h EXCEPT ![p] = EnterAdmitLoop(h[p], admitFuncs)]
    /\ UNCHANGED admitFuncs

DoCallAdmitFunc(p) ==
    /\ h[p].pc = "loop"
    /\ h[p].variant = "controller"
    /\ h' = [h EXCEPT ![p] = CallAdmitFunc(h[p])]
    /\ UNCHANGED admitFuncs

DoFinishReview(p) ==
    /\ h[p].pc = "build"
    /\ h[p].variant = "controller"
    /\ h' = [h EXCEPT ![p] = FinishReview(h[p])]
    /\ UNCHANGED admitFuncs

\* The handler has returned; the goroutine is free for the next request.
Return(p) ==
    /\ h[p].pc = "done"
    /\ h[p].variant = "controller"
    /\ h' = [h EXCEPT ![p] = IdleHandler]
    /\ UNCHANGED admitFuncs

\* A request arrives at the http.Handler that AdmitFuncHandler(adm) returned.
AdmitFuncHandler(p, adm, m, ct, b) ==
    /\ h[p].pc = "idle"
    /\ h' = [h EXCEPT ![p] =
                ValidateRequest([IdleHandler EXCEPT !.variant = "func", !.adm = adm,
                                                    !.method = m, !.contentType = ct], b)]
    /\ UNCHANGED admitFuncs

DoHandlerParseReview(p) ==
    /\ h[p].pc = "decode"
    /\ h[p].variant = "func"
    /\ h' = [h EXCEPT ![p] = HandlerParseReview(h[p])]
    /\ UNCHANGED admitFuncs

DoHandlerAdmit(p) ==
    /\ h[p].pc = "admit"
    /\ h[p].variant = "func"
    /\ h' = [h EXCEPT ![p] = HandlerAdmit(h[p])]
    /\ UNCHANGED admitFuncs

DoHandlerFinishReview(p) ==
    /\ h[p].pc = "build"
    /\ h[p].variant = "func"
    /\ h' = [h EXCEPT ![p] = HandlerFinishReview(h[p])]
    /\ UNCHANGED admitFuncs

HandlerReturn(p) ==
    /\ h[p].pc = "done"
    /\ h[p].variant = "func"
    /\ h' = [h EXCEPT ![p] = IdleHandler]
    /\ UNCHANGED admitFuncs

\* The last step of a request whose encoded envelope json.Marshal rejects.
DoFinishReviewEncodeFault(p) ==
    /\ h[p].pc = "build"
    /\ h[p].variant = "controller"
    /\ h' = [h EXCEPT ![p] = FinishReviewEncodeFault(h[p])]
    /\ UNCHANGED admitFuncs

DoHandlerFinishReviewEncodeFault(p) ==
    /\ h[p].pc = "build"
    /\ h[p].variant = "func"
    /\ h' = [h EXCEPT ![p] = HandlerFinishReviewEncodeFault(h[p])]
    /\ UNCHANGED admitFuncs

Init ==
    /\ admitFuncs = <<>>
    /\ h = [p \in Procs |-> IdleHandler]

Next ==
    \/ \E adm \in FuncKinds : Register(adm)
    \/ \E p \in Procs, m \in Methods, ct \in ContentTypes, b \in Bodies : ServeHTTP(p, m, ct, b)
    \/ \E p \in Procs : DoParseReview(p)
    \/ \E p \in Procs : DoEnterAdmitLoop(p)
    \/ \E p \in Procs : DoCallAdmitFunc(p)
    \/ \E p \in Procs : DoFinishReview(p)
    \/ \E p \in Procs : Return(p)

Spec == Init /\ [][Next]_vars

\* One request at a time, served by the controller or by a single-function
\* handler: the two variants of the pipeline side by side.
Worker == "g1"

NextVariants ==
    \/ \E adm \in FuncKinds : Register(adm)
    \/ \E m \in Methods, ct \in ContentTypes, b \in Bodies : ServeHTTP(Worker, m, ct, b)
    \/ DoParseReview(Worker)
    \/ DoEnterAdmitLoop(Worker)
    \/ DoCallAdmitFunc(Worker)
    \/ DoFinishReview(Worker)
    \/ Return(Worker)
    \/ \E adm \in FuncKinds, m \in Methods, ct \in ContentTypes, b \in Bodies :
            AdmitFuncHandler(Worker, adm, m, ct, b)
    \/ DoHandlerParseReview(Worker)
    \/ DoHandlerAdmit(Worker)
    \/ DoHandlerFinishReview(Worker)
    \/ HandlerReturn(Worker)

SpecVariants == Init /\ [][NextVariants]_vars

\* The requests of SpecVariants, with json.Marshal of the response envelope
\* allowed to fail: the error branches at lines 154-156 and 304-306, which no
\* decoded request takes.
NextFaults ==
    \/ NextVariants
    \/ DoFinishReviewEncodeFault(Worker)
    \/ DoHandlerFinishReviewEncodeFault(Worker)

SpecFaults == Init /\ [][NextFaults]_vars

\* The two variants side by side: the controller serves one goroutine while
\* a single-function handler serves the other.
Peer == "g2"

NextPair ==
    \/ \E adm \in FuncKinds : Register(adm)
    \/ \E m \in Methods, ct \in ContentTypes, b \in Bodies : ServeHTTP(Worker, m, ct, b)
    \/ DoParseReview(Worker)
    \/ DoEnterAdmitLoop(Worker)
    \/ DoCallAdmitFunc(Worker)
    \/ DoFinishReview(Worker)
    \/ Return(Worker)
    \/ \E adm \in FuncKinds, m \in Methods, ct \in ContentTypes, b \in Bodies :
            AdmitFuncHandler(Peer, adm, m, ct, b)
    \/ DoHandlerParseReview(Peer)
    \/ DoHandlerAdmit(Peer)
    \/ DoHandlerFinishReview(Peer)
    \/ HandlerReturn(Peer)

SpecPair == Init /\ [][NextPair]_vars

\* ================================================================ claims
Done(p) == h[p].pc = "done"

Controller(p) == h[p].variant = "controller"

\* A POST with the JSON content type whose body decodes to a review request.
WellFormed(p) ==
    /\ h[p].method = "POST"
    /\ h[p].contentType = "application/json"
    /\ h[p].body.kind = "review"

Protected(p) == h[p].body.namespace \in {"kube-public", "kube-system"}

\* What function i of the list the request iterates returns for the request.
Returned(p, i) == AdmitFunc(h[p].funcs[i], h[p].req)

Fails(p, i) == Returned(p, i).err # NoErr

\* The first function, in registration order, that returns an error (0: none).
FirstFailing(p) ==
    IF \E i \in 1..Len(h[p].funcs) : Fails(p, i)
    THEN CHOOSE i \in 1..Len(h[p].funcs) :
            Fails(p, i) /\ \A j \in 1..(i - 1) : ~Fails(p, j)
    ELSE 0

\* The operations the written review carries.
PatchItems(p) == h[p].w.review.patch.items

ReviewWritten(p) == Done(p) /\ h[p].w.kind = "review"

\* C1: a well-formed POST to a non-protected namespace whose first failing
\* decision function is i is answered with status 200, allowed=false and the
\* error text of function i as the result message.
C1_DeniedWithFirstError ==
    \A p \in Procs :
        (Done(p) /\ Controller(p) /\ WellFormed(p) /\ ~Protected(p) /\ FirstFailing(p) > 0)
        => /\ h[p].w.status = 200
           /\ h[p].w.kind = "review"
           /\ h[p].w.review.allowed = FALSE
           /\ h[p].w.review.hasResult
           /\ h[p].w.review.message = Returned(p, FirstFailing(p)).err

\* C2: when a decision function returned an error during a request, the
\* review written for that request carries none of the operations collected
\* from the functions that ran before it.
C2_FailureCarriesNoPatch ==
    \A p \in Procs :
        (ReviewWritten(p) /\ Controller(p) /\ \E k \in 1..Len(h[p].calls) : Fails(p, h[p].calls[k]))
        => PatchItems(p) = <<>>

\* C3: a well-formed POST to kube-public or kube-system invokes no decision
\* function and is answered allowed=true with a patch of no operations,
\* whatever functions are registered.
C3_ProtectedNamespaceBypass ==
    \A p \in Procs :
        (Controller(p) /\ WellFormed(p) /\ Protected(p))
        => /\ h[p].calls = <<>>
           /\ Done(p) => /\ h[p].w.status = 200
                         /\ h[p].w.kind = "review"
                         /\ h[p].w.review.allowed
                         /\ ~h[p].w.review.hasResult
                         /\ PatchItems(p) = <<>>

\* C3 happens: a protected-namespace request was allowed while a function
\* that always fails is registered.
C3_Witness ==
    \E p \in Procs :
        /\ ReviewWritten(p) /\ Controller(p) /\ WellFormed(p)
        /\ h[p].body.namespace = "kube-public"
        /\ h[p].w.review.allowed
        /\ Len(admitFuncs) > 0 /\ admitFuncs[1] = "denyOps"

\* C4: once a decision function has returned an error for a request, no
\* function registered after it is invoked for that request: an invoked
\* function that failed is the last one invoked.
C4_FailureStopsIteration ==
    \A p \in Procs :
        Controller(p) =>
            \A k \in 1..Len(h[p].calls) :
                Fails(p, h[p].calls[k]) => k = Len(h[p].calls)

\* C4 happens: the request is finished, the failing function was invoked
\* and a function registered after it was not.
C4_Witness ==
    \E p \in Procs :
        /\ Done(p) /\ Controller(p)
        /\ Len(h[p].calls) > 0
        /\ Fails(p, h[p].calls[Len(h[p].calls)])
        /\ Len(h[p].funcs) > Len(h[p].calls)

\* The operation sequences of the functions, concatenated in list order.
RECURSIVE ConcatReturned(_, _)
ConcatReturned(p, n) ==
    IF n = 0 THEN <<>> ELSE ConcatReturned(p, n - 1) \o Returned(p, n).patches.elems

AllSucceed(p) == \A i \in 1..Len(h[p].funcs) : ~Fails(p, i)

\* C5 as stated: every function returning without error gives allowed=true
\* and exactly the concatenation of the returned sequences.
C5_AllowedWithConcatenation ==
    \A p \in Procs :
        (Done(p) /\ Controller(p) /\ WellFormed(p) /\ ~Protected(p) /\ AllSucceed(p))
        => /\ h[p].w.status = 200
           /\ h[p].w.kind = "review"
           /\ h[p].w.review.allowed
           /\ PatchItems(p) = ConcatReturned(p, Len(h[p].funcs))

Serializable(ops) == \A i \in 1..Len(ops) : ops[i].value # "<chan>"

\* C5 amended: the same, for requests whose returned operations can all be
\* serialized to JSON.
C5_AllowedWithConcatenationIfSerializable ==
    \A p \in Procs :
        (Done(p) /\ Controller(p) /\ WellFormed(p) /\ ~Protected(p) /\ AllSucceed(p)
            /\ Serializable(ConcatReturned(p, Len(h[p].funcs))))
        => /\ h[p].w.status = 200
           /\ h[p].w.kind = "review"
           /\ h[p].w.review.allowed
           /\ ~h[p].w.review.hasResult
           /\ PatchItems(p) = ConcatReturned(p, Len(h[p].funcs))

\* C5 happens: F1 -> [A], F2 -> [B] answered with the patch [A, B].
C5_Witness ==
    \E p \in Procs :
        /\ ReviewWritten(p) /\ Controller(p)
        /\ h[p].funcs = <<"patchA", "patchB">>
        /\ h[p].body.namespace = "default"
        /\ PatchItems(p) = <<OpA, OpB>>

\* C6: a request whose method is not POST gets status 405; its body is never
\* read and no decision function is invoked.
C6_MethodNotAllowed ==
    \A p \in Procs :
        (Controller(p) /\ h[p].method # "POST")
        => /\ Done(p)
           /\ h[p].w.status = 405
           /\ h[p].w.kind = "text"
           /\ h[p].body.kind = "unread"
           /\ ~h[p].decoded
           /\ h[p].calls = <<>>

\* C6 happens: a GET was answered.
C6_Witness ==
    \E p \in Procs :
        Done(p) /\ Controller(p) /\ h[p].method = "GET" /\ h[p].w.status = 405

\* C7: a POST whose Content-Type is not exactly application/json gets status
\* 400; its body is not decoded and no decision function is invoked.
C7_UnsupportedContentType ==
    \A p \in Procs :
        (Controller(p) /\ h[p].method = "POST" /\ h[p].contentType # "application/json")
        => /\ Done(p)
           /\ h[p].w.status = 400
           /\ h[p].w.kind = "text"
           /\ ~h[p].decoded
           /\ h[p].calls = <<>>

\* C7 happens: a parameterized content type and an absent header were
\* rejected, though the bodies were fine.
C7_Witness ==
    \E p, q \in Procs :
        /\ Done(p) /\ Controller(p) /\ h[p].method = "POST"
        /\ h[p].contentType = "application/json; charset=utf-8"
        /\ h[p].body.kind = "review" /\ h[p].w.status = 400
        /\ Done(q) /\ Controller(q) /\ h[q].method = "POST"
        /\ h[q].contentType = ""
        /\ h[q].body.kind = "review" /\ h[q].w.status = 400

\* C8: a POST with the right content type whose body does not decode, or
\* decodes to a review with a nil request, gets a 4xx status and nothing
\* more: no namespace check, no decision function, no review response.
C8_UndecodableBodyRejected ==
    \A p \in Procs :
        (Controller(p) /\ h[p].method = "POST" /\ h[p].contentType = "application/json"
            /\ h[p].body.kind \in {"garbage", "nilRequest"} /\ h[p].decoded)
        => /\ Done(p)
           /\ h[p].w.status \in 400..499
           /\ h[p].w.kind = "text"
           /\ ~h[p].nsChecked
           /\ h[p].calls = <<>>
           /\ ~h[p].review.built

\* C8 happens: one request failed to decode, another decoded to a nil request.
C8_Witness ==
    \E p, q \in Procs :
        /\ Done(p) /\ Controller(p) /\ h[p].decoded /\ h[p].body.kind = "garbage"
        /\ Done(q) /\ Controller(q) /\ h[q].decoded /\ h[q].body.kind = "nilRequest"

\* C9: every review response the handlers write is either an allow without
\* a denial message (possibly with a patch) or a denial with a message and
\* no patch; never a patch together with a denial.
C9_AllowOrDeny ==
    \A p \in Procs :
        ReviewWritten(p) =>
            LET r == h[p].w.review
            IN  \/ r.allowed /\ ~r.hasResult
                \/ ~r.allowed /\ r.hasResult /\ r.message # <<>> /\ ~r.patch.present

\* C9 happens: a function that returned operations with an error was
\* answered by a denial.
C9_Witness ==
    \E p \in Procs :
        /\ ReviewWritten(p)
        /\ h[p].patchOps.elems # <<>>
        /\ ~h[p].w.review.allowed /\ h[p].w.review.hasResult

\* C10: every review written carries the UID of the request it answers,
\* also while another request is in flight.
C10_EchoesRequestUID ==
    \A p \in Procs :
        ReviewWritten(p) => h[p].w.review.uid = h[p].body.uid

\* C10 happens: two requests with different UIDs were answered side by side,
\* one of them to a protected namespace.
C10_Witness ==
    \E p, q \in Procs :
        /\ ReviewWritten(p) /\ ReviewWritten(q)
        /\ h[p].body.uid = "uid-1" /\ h[q].body.uid = "uid-2"
        /\ h[p].w.review.uid = "uid-1" /\ h[q].w.review.uid = "uid-2"
        /\ Protected(p) /\ ~Protected(q)

\* doServeAdmitFunc returned the error of one of its two json.Marshal calls.
EncodingFailed(p) ==
    /\ Done(p)
    /\ h[p].retErr # <<>>
    /\ h[p].retErr[1] \in {"could not marshal JSON patch: ", "marshaling response: "}

\* The body was read and handed to the decoder, which did not yield a request.
DecodingFailed(p) ==
    Done(p) /\ h[p].decoded /\ h[p].body.kind \in {"garbage", "nilRequest"}

\* C11: an encoding failure (of the patch list or of the envelope) ends the
\* request with a 5xx status and the error text instead of a review, while a
\* decode failure ends it with a 4xx status; a patch list that cannot be
\* encoded ends the controller's request so whatever else the functions
\* returned.
C11_EncodingFailureIsServerError ==
    \A p \in Procs :
        /\ EncodingFailed(p) => h[p].w.status \in 500..599 /\ h[p].w.kind = "text"
        /\ DecodingFailed(p) => h[p].w.status \in 400..499 /\ h[p].w.kind = "text"
        /\ (Done(p) /\ Controller(p) /\ h[p].nsChecked /\ ~Serializable(h[p].patchOps.elems))
            => EncodingFailed(p)

\* The envelope failure is covered: the envelope failed to encode after the
\* functions' patch had been encoded.
C11_EnvelopeWitness ==
    \E p \in Procs :
        /\ EncodingFailed(p) /\ Controller(p)
        /\ h[p].retErr[1] = "marshaling response: "
        /\ h[p].review.patch.items = <<OpA>>
        /\ h[p].w.status = 500

\* C11 happens: a function returned a value json cannot encode, after another
\* function's patch had been collected, and the request ended with 500.
C11_Witness ==
    \E p \in Procs :
        /\ EncodingFailed(p) /\ Controller(p)
        /\ h[p].retErr[1] = "could not marshal JSON patch: "
        /\ h[p].funcs = <<"patchA", "badValue">>
        /\ h[p].w.status = 500

\* doServeAdmitFunc returned an error.
PipelineFailed(p) == Done(p) /\ h[p].retErr # <<>>

\* C12 as stated: on any pipeline failure the response has a server-error
\* status and the plain error text as its body; on success status 200 and
\* the encoded review.
C12_FailureIsServerError ==
    \A p \in Procs :
        Done(p) =>
            IF h[p].retErr # <<>>
            THEN /\ h[p].w.status \in 500..599
                 /\ h[p].w.kind = "text"
                 /\ h[p].w.text = h[p].retErr
            ELSE /\ h[p].w.status = 200
                 /\ h[p].w.kind = "review"

\* The status doServeAdmitFunc sets for the failure of a request.
FailureStatus(p) ==
    IF h[p].method # "POST" THEN 405
    ELSE IF h[p].body.kind = "readError" THEN 400
    ELSE IF h[p].contentType # "application/json" THEN 400
    ELSE IF h[p].body.kind \in {"garbage", "nilRequest"} THEN 400
    ELSE 500

\* C12 amended: on any pipeline failure the body is the plain error text,
\* never a review, and the status is the one doServeAdmitFunc set first (405
\* wrong method; 400 unreadable body, wrong content type, decode failure,
\* nil request; 500 patch that cannot be encoded), 500 when it set none (the
\* envelope cannot be encoded); on success status 200 and the encoded review.
C12_FailureKeepsFirstStatus ==
    \A p \in Procs :
        Done(p) =>
            IF h[p].retErr # <<>>
            THEN /\ h[p].w.status = FailureStatus(p)
                 /\ h[p].w.kind = "text"
                 /\ h[p].w.text = h[p].retErr
                 /\ ~h[p].w.review.built
            ELSE /\ h[p].w.status = 200
                 /\ h[p].w.kind = "review"
                 /\ h[p].w.review.built
                 /\ h[p].w.review = h[p].review

\* C12 happens: a request failed on its method and was answered with the
\* error text under the status set before ServeHTTP's WriteHeader(500).
C12_Witness ==
    \E p \in Procs :
        /\ PipelineFailed(p) /\ Controller(p)
        /\ h[p].method = "GET"
        /\ h[p].w.kind = "text" /\ h[p].w.text[1] = "invalid method "
        /\ h[p].w.status = 405

\* Two invocations were given the same request.
SameRequest(p, q) ==
    /\ h[p].variant = h[q].variant
    /\ h[p].method = h[q].method
    /\ h[p].contentType = h[q].contentType
    /\ h[p].body = h[q].body

\* A step of the handler that serves goroutine p.
HandlerMoves(p) == h'[p] # h[p]

\* C13: with the same registered functions, the same request gets the same
\* response (status, body, allowed, message, patch) from every invocation,
\* whatever each goroutine handled before; and a finished invocation leaves
\* nothing behind: the goroutine is back in its initial state and no step of
\* a handler changes the controller.
C13_SameRequestSameResponse ==
    /\ [](\A p, q \in Procs :
            (Done(p) /\ Done(q) /\ SameRequest(p, q) /\ h[p].funcs = h[q].funcs)
            => h[p].w = h[q].w)
    /\ [][\A p \in Procs :
            HandlerMoves(p) =>
                /\ admitFuncs' = admitFuncs
                /\ Done(p) => h'[p] = IdleHandler]_vars

\* C13 happens: two goroutines answered the same request, which ran the same
\* two functions, with the same patch.
C13_Witness ==
    \E p, q \in Procs :
        /\ p # q /\ ReviewWritten(p) /\ ReviewWritten(q) /\ SameRequest(p, q)
        /\ h[p].funcs = h[q].funcs /\ Len(h[p].funcs) = 2
        /\ Len(h[p].calls) = 2
        /\ PatchItems(p) # <<>> /\ PatchItems(p) = PatchItems(q)

\* A request has been received and its handler has not finished with it.
InFlight(p) == h[p].pc \notin {"idle", "done"}

\* C14: the registered-function list is read-only once requests are served:
\* no step -- of a handler or of the operations the AdmissionController
\* interface exposes -- changes it while a request is in flight.
C14_ListReadOnlyInFlight ==
    [][(\E p \in Procs : InFlight(p)) => admitFuncs' = admitFuncs]_vars

\* s is an initial segment of t.
IsPrefix(s, t) == Len(s) <= Len(t) /\ \A i \in 1..Len(s) : s[i] = t[i]

\* C15: within a request the functions are invoked in registration order,
\* each at most once; function k only after all functions before it were
\* invoked and returned without error, and only after the method, the
\* content type, the decoding and the namespace check have passed.
C15_InvokedInRegistrationOrder ==
    \A p \in Procs :
        Controller(p) =>
            /\ IsPrefix(h[p].funcs, admitFuncs)
            /\ Len(h[p].calls) <= Len(h[p].funcs)
            /\ \A k \in 1..Len(h[p].calls) :
                /\ h[p].calls[k] = k
                /\ \A j \in 1..(k - 1) : ~Fails(p, j)
            /\ h[p].calls # <<>> =>
                /\ h[p].method = "POST"
                /\ h[p].contentType = "application/json"
                /\ h[p].decoded /\ h[p].body.kind = "review"
                /\ h[p].nsChecked /\ ~Protected(p)

\* C15 happens: a finished request ran through two registered functions, the
\* second after the first had returned without error.
C15_Witness ==
    \E p \in Procs :
        /\ Done(p) /\ Controller(p)
        /\ h[p].calls = <<1, 2>>
        /\ h[p].funcs = <<"patchB", "patchA">>
        /\ PatchItems(p) = <<OpB, OpA>>

\* Some function invoked for the request returned operations with an error.
ErrorWithOps(p, k) ==
    LET r == IF Controller(p) THEN Returned(p, h[p].calls[k]) ELSE AdmitFunc(h[p].adm, h[p].req)
    IN  r.err # <<>> /\ r.patches.elems # <<>>

OpsOfFailed(p, k) ==
    LET r == IF Controller(p) THEN Returned(p, h[p].calls[k]) ELSE AdmitFunc(h[p].adm, h[p].req)
    IN  {r.patches.elems[i] : i \in 1..Len(r.patches.elems)}

\* C16: when a function returns operations together with an error, the
\* request is answered as a failure only: a denial with the function's
\* message, with none of those operations in the patch.
C16_ErrorWithOpsIsFailureOnly ==
    \A p \in Procs :
        \A k \in 1..Len(h[p].calls) :
            (Done(p) /\ ErrorWithOps(p, k))
            => /\ h[p].w.kind = "review"
               /\ ~h[p].w.review.allowed
               /\ h[p].w.review.hasResult
               /\ \A i \in 1..Len(PatchItems(p)) : PatchItems(p)[i] \notin OpsOfFailed(p, k)

\* C17: a controller with exactly f registered and AdmitFuncHandler(f) answer
\* the same request with the same status, allowed flag, denial message and
\* patch operations.
C17_VariantsAgree ==
    \A f \in FuncKinds :
        (/\ Done(Worker) /\ Done(Peer)
         /\ h[Worker].variant = "controller" /\ h[Peer].variant = "func"
         /\ h[Peer].adm = f /\ admitFuncs = <<f>>
         /\ (h[Worker].nsChecked /\ ~Protected(Worker)) => h[Worker].funcs = <<f>>
         /\ h[Worker].method = h[Peer].method
         /\ h[Worker].contentType = h[Peer].contentType
         /\ h[Worker].body = h[Peer].body)
        => /\ h[Worker].w.status = h[Peer].w.status
           /\ h[Worker].w.kind = h[Peer].w.kind
           /\ h[Worker].w.review.allowed = h[Peer].w.review.allowed
           /\ h[Worker].w.review.hasResult = h[Peer].w.review.hasResult
           /\ h[Worker].w.review.message = h[Peer].w.review.message
           /\ h[Worker].w.review.patch.items = h[Peer].w.review.patch.items

====
